---------------------------- MODULE Spec2Model ----------------------------
(***************************************************************************)
(* State-machine model of the storefront API of src/app/api/[[...path]]/   *)
(* route.js: the stores, products and orders collections and the POST,     *)
(* PUT and DELETE handlers that write them (store and product creation,    *)
(* order creation, payment verification, order status update), the         *)
(* payment creation that calls the gateway, and the analytics report.      *)
(*                                                                         *)
(* Representation.                                                         *)
(*  - A collection is the sequence of its documents in insertion order.    *)
(*  - uuidv4() ids are fresh: the n-th id of a collection is <<kind, n>>.  *)
(*  - An optional JS value is a set: {} is undefined, {v} is the value v.  *)
(*  - An optional string field is the string, "" standing for a missing    *)
(*    or empty (falsy) value and Absent for a field a document lacks.      *)
(*  - Strings that are normalised (names) are sequences of characters.     *)
(*  - Money is counted in minor units (integers).                          *)
(*  - Date.now() is the variable now, in ticks after an arbitrary epoch.   *)
(*  - Document fields no handler reads back (description, domain, images,  *)
(*    store/product timestamps) are left out.                              *)
(***************************************************************************)
EXTENDS Integers, Sequences, FiniteSets, TLC

(***************************************************************************)
(* Bounds of the model.                                                    *)
(***************************************************************************)
\* steps that change the database or the clock (successful writes and clock
\* ticks) in one run of the payment, the catalogue-and-cart and the store
\* scenario, in one run of the checkout and of the analytics scenario
MaxSteps == 3
MaxCartSteps == 2
MaxStoreSteps == 3
MaxCheckoutSteps == 3
MaxAnalyticsSteps == 2
MaxFaultSteps == 2
\* writes to the orders while a report is made
MaxReportSteps == 1
\* product writes of the order race
MaxRaceSteps == 2
\* requests that follow the first ones in the connection scenario
MaxConnectSteps == 5
\* items of a cart
MaxItems == 2
\* requests in service at the same time
MaxCalls == 2

(***************************************************************************)
(* Generic helpers.                                                        *)
(***************************************************************************)
Absent == "absent"

Last(s) == s[Len(s)]

Front(s) == SubSeq(s, 1, Len(s) - 1)

Range(s) == {s[i] : i \in 1..Len(s)}

\* indexes of the documents of a collection matching a filter, ascending
Matches(coll, F(_)) == {i \in 1..Len(coll) : F(coll[i])}

Min(S) == CHOOSE x \in S : \A y \in S : x <= y

\* the collection with the document at index i removed
RemoveAt(coll, i) == SubSeq(coll, 1, i - 1) \o SubSeq(coll, i + 1, Len(coll))

(***************************************************************************)
(* generateSlug: lower-case, every maximal run of characters outside       *)
(* [a-z0-9] becomes one "-", then one leading and one trailing "-" go.     *)
(***************************************************************************)
UpperCase == <<"A", "B", "C", "W", "X">>
LowerCase == <<"a", "b", "c", "w", "x">>
Digits == {"0", "1", "2", "3", "4", "5", "6", "7", "8", "9"}

toLowerCase(c) ==
    IF \E i \in 1..Len(UpperCase) : UpperCase[i] = c
    THEN LowerCase[CHOOSE i \in 1..Len(UpperCase) : UpperCase[i] = c]
    ELSE c

IsSlugChar(c) == c \in Range(LowerCase) \cup Digits

RECURSIVE ReplaceRuns(_, _)
ReplaceRuns(s, inRun) ==
    IF s = <<>> THEN <<>>
    ELSE IF IsSlugChar(Head(s)) THEN <<Head(s)>> \o ReplaceRuns(Tail(s), FALSE)
    ELSE (IF inRun THEN <<>> ELSE <<"-">>) \o ReplaceRuns(Tail(s), TRUE)

TrimDashes(s) ==
    LET a == IF s # <<>> /\ Head(s) = "-" THEN Tail(s) ELSE s
    IN  IF a # <<>> /\ Last(a) = "-" THEN Front(a) ELSE a

generateSlug(name) ==
    TrimDashes(ReplaceRuns([i \in 1..Len(name) |-> toLowerCase(name[i])], FALSE))

(***************************************************************************)
(* JavaScript value helpers.                                               *)
(***************************************************************************)
\* truthiness of an optional number: undefined and 0 are falsy
Truthy(opt) == opt # {} /\ opt # {0}

Value(opt) == CHOOSE v \in opt : TRUE

\* parseInt(x) || 0 of an optional integer
ParseIntOrZero(opt) == IF Truthy(opt) THEN Value(opt) ELSE 0

RECURSIVE SumSeq(_)
SumSeq(s) == IF s = <<>> THEN 0 ELSE Head(s) + SumSeq(Tail(s))

(***************************************************************************)
(* Payment signature: the hex digest of HMAC-SHA256 under key of the       *)
(* message orderId + "|" + paymentId, as an ideal (collision-free) MAC.    *)
(***************************************************************************)
RAZORPAY_KEY_SECRET == "key_secret"

\* the key id, which the checkout page hands to every browser
RAZORPAY_KEY_ID == "key_id"

Hmac(key, msg) == <<"hmac-sha256", key>> \o msg

\* the signature the gateway gives the payer of a captured payment
GatewaySignature(razorpay_order_id, razorpay_payment_id) ==
    Hmac(RAZORPAY_KEY_SECRET, <<razorpay_order_id, "|", razorpay_payment_id>>)

\* mutant: the digest is keyed with the public key id
generatedSignatureKeyId(razorpay_order_id, razorpay_payment_id) ==
    Hmac(RAZORPAY_KEY_ID, <<razorpay_order_id, "|", razorpay_payment_id>>)

\* the signature the server computes for the two identifiers of a callback
generatedSignature(razorpay_order_id, razorpay_payment_id) ==
    Hmac(RAZORPAY_KEY_SECRET, <<razorpay_order_id, "|", razorpay_payment_id>>)

(***************************************************************************)
(* Request inputs.  A specification draws the requests of its runs from    *)
(* the sets of one scenario below: the catalogue-and-cart scenario varies  *)
(* products and carts, the payment scenario varies payment callbacks and   *)
(* status updates over plain one-item orders, the store scenario varies    *)
(* store names.                                                            *)
(***************************************************************************)
SeqsUpTo(S, n) == UNION {[1..k -> S] : k \in 0..n}

\* ids of request paths and bodies: the first ids handed out
StoreIds == {<<"store", 1>>, <<"store", 2>>, <<"store", 3>>}

ProductIds == {<<"product", 1>>, <<"product", 2>>, <<"product", 3>>}

PlainProductIds == {<<"product", 1>>, <<"product", 4>>}

OrderIds == {<<"order", 1>>, <<"order", 2>>, <<"order", 3>>}

\* store names of request bodies; <<>> is a missing or empty name
StoreNames == {<<>>, <<"A", "c">>, <<"a", "c", "!">>, <<"-", "a", " ", "c">>,
               <<"b">>, <<"B", "-">>, <<"!", "!">>, <<"-">>}

StoreBodies == [name : StoreNames]

PlainStoreBodies == [name : {<<"a", "c", "!">>, <<"B", "-">>}]

\* product names of request bodies; <<>> is a missing or empty name
ProductNames == {<<>>, <<"W">>, <<"x">>}

ProductBodies == [name : ProductNames, price : {{}, {3}}, inventory : {{}}]

PlainProductBodies == [name : {<<"W">>}, price : {{3}}, inventory : {{5}}]

\* update bodies: one field each, storeId being a field the handler does not
\* read
NoUpdate == [name |-> <<>>, price |-> {}, inventory |-> {}, isActive |-> {},
             storeId |-> {}]

ProductUpdates ==
    {[NoUpdate EXCEPT !.name = n] : n \in {<<"W">>, <<"x">>}}
      \cup {[NoUpdate EXCEPT !.price = {3}], [NoUpdate EXCEPT !.inventory = {4}],
            [NoUpdate EXCEPT !.isActive = {FALSE}],
            [NoUpdate EXCEPT !.storeId = {<<"store", 2>>}]}

PlainProductUpdates == {[NoUpdate EXCEPT !.price = {3}]}

\* a cart item may ask for any number of a product
CartItems == {[productId |-> <<"product", 1>>, quantity |-> 1],
              [productId |-> <<"product", 2>>, quantity |-> 2],
              [productId |-> <<"product", 1>>, quantity |-> -1]}

\* a body may carry fields the handler does not read (status)
OrderBodies ==
    {b \in [items : SeqsUpTo(CartItems, MaxItems), customerInfo : {"alice"},
            total : {{}, {0}, {7}}, status : {"", "paid"}] :
       /\ b.status = "" \/ b.total = {}
       /\ (\E k \in 1..Len(b.items) : b.items[k].quantity < 1) =>
             (b.status = "" /\ b.total = {})}

PlainOrderBodies ==
    [items : {<<[productId |-> p, quantity |-> 1]>> :
                p \in {<<"product", 1>>, <<"product", 3>>}},
     customerInfo : {"alice"}, total : {{}}, status : {""}]

\* status values of request bodies: "" is a missing status, "refunded" is a
\* value that no screen of the dashboard offers
StatusBodies == [status : {"", "paid", "shipped", "refunded"}]

\* messages of the exceptions the driver throws
DriverErrors == {"connect ECONNREFUSED 127.0.0.1:27017"}

\* the period of an analytics query: {} is a query without one
Periods == {{}, {0}, {7}, {30}, {90}}

\* order ids of the status updates of the analytics scenario: two orders of
\* the history and the first order made after it
AnalyticsOrderIds == {<<"order", 2>>, <<"order", 5>>, <<"order", 7>>}

\* status values of the status updates of the analytics scenario
AnalyticsStatusBodies == [status : {"paid", "cancelled"}]

\* bodies of payment creations: amounts in thousandths of a currency unit
PaymentBodies == [amount : {{}, {0}, {-1995}, {1995}}, receipt : {"", "ORD-1"}]

GatewayOrderIds == {"", "order_A", "order_B"}

GatewayPaymentIds == {"", "pay_1"}

\* signatures a caller can present: none, the gateway's signature of some
\* pair of identifiers, or a digest made without the server's secret
Signatures ==
    {<<>>, Hmac(RAZORPAY_KEY_ID, <<"order_A", "|", "pay_1">>)}
      \cup {GatewaySignature(o, "pay_1") : o \in GatewayOrderIds \ {""}}

\* callbacks: one lacking a value, one whose signature is the gateway's for
\* its two identifiers, or one whose signature is not
VerifyBodies ==
    {b \in [razorpay_order_id : GatewayOrderIds,
            razorpay_payment_id : GatewayPaymentIds,
            razorpay_signature : Signatures,
            orderId : OrderIds, storeId : StoreIds] :
       \/ /\ b.razorpay_order_id # "" /\ b.razorpay_payment_id # ""
          /\ b.razorpay_signature # <<>>
       \/ /\ b.razorpay_signature = GatewaySignature("order_A", "pay_1")
          /\ (b.razorpay_order_id = "") # (b.razorpay_payment_id = "")
       \/ /\ b.razorpay_signature = <<>>
          /\ b.razorpay_order_id = "order_A" /\ b.razorpay_payment_id = "pay_1"}

(***************************************************************************)
(* State: the three collections, the id source of products (products can   *)
(* be deleted, so their count does not name the next id), the steps the    *)
(* run may still take, the clock, the request being answered, the order    *)
(* creations the payment gateway has received, the analytics report in     *)
(* the response being returned, the client and db of the module (the       *)
(* string "null" is null; they are connected where a scenario starts from  *)
(* a database earlier requests have filled), and the requests that are     *)
(* served a step at a time, each with its position and its locals.         *)
(***************************************************************************)
VARIABLES stores, products, orders, productSeq, budget, now, last, gateway, report,
          client, db, calls

vars == <<stores, products, orders, productSeq, budget, now, last, gateway, report,
          client, db, calls>>

Response(op, req, code, err) == [op |-> op, req |-> req, code |-> code, err |-> err]

\* the body of a response that is no analytics report
NoReport == [none |-> TRUE]

\* no request is being answered
Idle == Response("idle", [none |-> TRUE], 0, "")

\* a request is taken when the previous response has been returned; one that
\* writes (its response is 200 or 201) is taken while the run has steps to go
Serve(op, req, r) ==
    /\ last = Idle
    /\ r.code \in {200, 201} => budget > 0
    /\ budget' = IF r.code \in {200, 201} THEN budget - 1 ELSE budget
    /\ last' = Response(op, req, r.code, r.err)

\* a database of the given stores, products and orders, with n steps to go
InitWith(ss, ps, os, n) ==
    /\ stores = ss
    /\ products = ps
    /\ orders = os
    /\ productSeq = Len(ps)
    /\ budget = n
    /\ now = 0
    /\ last = Idle
    /\ gateway = <<>>
    /\ report = NoReport
    /\ client = "MongoClient"
    /\ db = "Db"
    /\ calls = <<>>

\* the clock advances between requests
Tick ==
    /\ last = Idle
    /\ budget > 0
    /\ budget' = budget - 1
    /\ now' = now + 1
    /\ UNCHANGED <<stores, products, orders, productSeq, last, gateway, report, client, db, calls>>

\* the response of the last request is returned to the caller
Respond ==
    /\ last # Idle
    /\ last' = Idle
    /\ report' = NoReport
    /\ UNCHANGED <<stores, products, orders, productSeq, budget, now, gateway, client, db, calls>>

\* validateStoreAccess: findOne({id: storeId, isActive: true}) found a store
validateStoreAccess(storeId) ==
    Matches(stores, LAMBDA d : d.id = storeId /\ d.isActive) # {}

(***************************************************************************)
(* POST /api/stores, in the catch-all route and in the stores route        *)
(***************************************************************************)
\* newStore: the document of the n-th store
newStore(n, body) ==
    [id |-> <<"store", n>>, name |-> body.name,
     slug |-> generateSlug(body.name), isActive |-> TRUE]

\* mutant: the uniqueness check compares names, not slugs
CreateStoreResultByName(body) ==
    IF body.name = <<>>
    THEN [code |-> 400, err |-> "Store name is required", stores |-> stores]
    ELSE IF Matches(stores, LAMBDA d : d.name = body.name) # {}
    THEN [code |-> 400, err |-> "Store name already taken", stores |-> stores]
    ELSE [code |-> 201, err |-> "",
          stores |-> Append(stores, newStore(Len(stores) + 1, body))]

CreateStoreResult(body) ==
    IF body.name = <<>>
    THEN [code |-> 400, err |-> "Store name is required", stores |-> stores]
    ELSE IF Matches(stores, LAMBDA d : d.slug = generateSlug(body.name)) # {}
    THEN [code |-> 400, err |-> "Store name already taken", stores |-> stores]
    ELSE [code |-> 201, err |-> "",
          stores |-> Append(stores, newStore(Len(stores) + 1, body))]

CreateStore(body) ==
    LET r == CreateStoreResult(body)
    IN  /\ Serve("createStore", body, r)
        /\ stores' = r.stores
        /\ UNCHANGED <<products, orders, productSeq, now, gateway, report, client, db, calls>>

StoresRouteCreateStore(body) ==
    LET r == CreateStoreResult(body)
    IN  /\ Serve("storesRoute.createStore", body, r)
        /\ stores' = r.stores
        /\ UNCHANGED <<products, orders, productSeq, now, gateway, report, client, db, calls>>

(***************************************************************************)
(* POST /api/products/{storeId}                                            *)
(***************************************************************************)
\* newProduct: the document of the n-th product
newProduct(n, storeId, body) ==
    [id |-> <<"product", n>>,
     name |-> body.name,
     slug |-> generateSlug(body.name),
     price |-> Value(body.price),
     inventory |-> ParseIntOrZero(body.inventory),
     isActive |-> TRUE,
     storeId |-> storeId]

CreateProductResult(storeId, body) ==
    IF body.name = <<>> \/ body.price = {}
    THEN [code |-> 400, err |-> "Product name and price are required",
          products |-> products]
    ELSE IF ~validateStoreAccess(storeId)
    THEN [code |-> 404, err |-> "Store not found", products |-> products]
    ELSE IF Matches(products, LAMBDA d : d.storeId = storeId
                                         /\ d.slug = generateSlug(body.name)) # {}
    THEN [code |-> 400, err |-> "Product with this name already exists in store",
          products |-> products]
    ELSE [code |-> 201, err |-> "",
          products |-> Append(products, newProduct(productSeq + 1, storeId, body))]

CreateProduct(storeId, body) ==
    LET r == CreateProductResult(storeId, body)
    IN  /\ Serve("createProduct", [storeId |-> storeId, body |-> body], r)
        /\ products' = r.products
        /\ productSeq' = IF r.code = 201 THEN productSeq + 1 ELSE productSeq
        /\ UNCHANGED <<stores, orders, now, gateway, report, client, db, calls>>

(***************************************************************************)
(* PUT /api/products/{storeId}/product/{itemId}                            *)
(***************************************************************************)
\* mutant: the store id of the body is written too
ApplyProductUpdateWithStoreId(d, body) ==
    [d EXCEPT !.name = IF body.name # <<>> THEN body.name ELSE @,
              !.slug = IF body.name # <<>> THEN generateSlug(body.name) ELSE @,
              !.price = IF body.price # {} THEN Value(body.price) ELSE @,
              !.inventory = IF body.inventory # {} THEN Value(body.inventory) ELSE @,
              !.isActive = IF body.isActive # {} THEN Value(body.isActive) ELSE @,
              !.storeId = IF body.storeId # {} THEN Value(body.storeId) ELSE @]

\* the document d after $set of updateData built from the body
ApplyProductUpdate(d, body) ==
    [d EXCEPT !.name = IF body.name # <<>> THEN body.name ELSE @,
              !.slug = IF body.name # <<>> THEN generateSlug(body.name) ELSE @,
              !.price = IF body.price # {} THEN Value(body.price) ELSE @,
              !.inventory = IF body.inventory # {} THEN Value(body.inventory) ELSE @,
              !.isActive = IF body.isActive # {} THEN Value(body.isActive) ELSE @]

UpdateProductResult(storeId, itemId, body) ==
    LET m == Matches(products, LAMBDA d : d.id = itemId /\ d.storeId = storeId)
    IN  IF ~validateStoreAccess(storeId)
        THEN [code |-> 404, err |-> "Store not found", products |-> products]
        ELSE IF m = {}
        THEN [code |-> 404, err |-> "Product not found", products |-> products]
        ELSE [code |-> 200, err |-> "",
              products |-> [products EXCEPT
                              ![Min(m)] = ApplyProductUpdate(@, body)]]

\* mutant: the update is carried into the items of the orders of the product
UpdateProductCascade(storeId, itemId, body) ==
    LET r == UpdateProductResult(storeId, itemId, body)
        reprice(item) ==
            IF item.productId = itemId /\ body.price # {}
            THEN [item EXCEPT !.price = Value(body.price),
                              !.total = Value(body.price) * item.quantity]
            ELSE item
    IN  /\ Serve("updateProduct",
                 [storeId |-> storeId, itemId |-> itemId, body |-> body], r)
        /\ products' = r.products
        /\ orders' = IF r.code = 200
                     THEN [i \in 1..Len(orders) |->
                             [orders[i] EXCEPT !.items =
                                [k \in 1..Len(@) |-> reprice(@[k])]]]
                     ELSE orders
        /\ UNCHANGED <<stores, productSeq, now, gateway, report, client, db, calls>>

UpdateProduct(storeId, itemId, body) ==
    LET r == UpdateProductResult(storeId, itemId, body)
    IN  /\ Serve("updateProduct",
                 [storeId |-> storeId, itemId |-> itemId, body |-> body], r)
        /\ products' = r.products
        /\ UNCHANGED <<stores, orders, productSeq, now, gateway, report, client, db, calls>>

(***************************************************************************)
(* DELETE /api/products/{storeId}/product/{itemId}                         *)
(***************************************************************************)
DeleteProductResult(storeId, itemId) ==
    LET m == Matches(products, LAMBDA d : d.id = itemId /\ d.storeId = storeId)
    IN  IF ~validateStoreAccess(storeId)
        THEN [code |-> 404, err |-> "Store not found", products |-> products]
        ELSE IF m = {}
        THEN [code |-> 404, err |-> "Product not found", products |-> products]
        ELSE [code |-> 200, err |-> "", products |-> RemoveAt(products, Min(m))]

\* mutant: the orders of the deleted product are deleted with it
DeleteProductWithOrders(storeId, itemId) ==
    LET r == DeleteProductResult(storeId, itemId)
    IN  /\ Serve("deleteProduct", [storeId |-> storeId, itemId |-> itemId], r)
        /\ products' = r.products
        /\ orders' = IF r.code = 200
                     THEN SelectSeq(orders,
                                    LAMBDA d : \A k \in 1..Len(d.items) :
                                                  d.items[k].productId # itemId)
                     ELSE orders
        /\ UNCHANGED <<stores, productSeq, now, gateway, report, client, db, calls>>

DeleteProduct(storeId, itemId) ==
    LET r == DeleteProductResult(storeId, itemId)
    IN  /\ Serve("deleteProduct", [storeId |-> storeId, itemId |-> itemId], r)
        /\ products' = r.products
        /\ UNCHANGED <<stores, orders, productSeq, now, gateway, report, client, db, calls>>

(***************************************************************************)
(* POST /api/orders/{storeId}                                              *)
(***************************************************************************)
\* mutant: the products of the cart are looked up in every store
findCartProductsAnyStore(ps, storeId, items) ==
    LET m == Matches(ps,
                     LAMBDA d : /\ \E i \in 1..Len(items) : items[i].productId = d.id
                                /\ d.isActive)
    IN  [k \in 1..Cardinality(m) |->
           ps[CHOOSE i \in m : Cardinality({j \in m : j <= i}) = k]]

\* find({id: {$in: productIds}, storeId, isActive: true}).toArray() on the
\* collection ps
findCartProducts(ps, storeId, items) ==
    LET m == Matches(ps,
                     LAMBDA d : /\ \E i \in 1..Len(items) : items[i].productId = d.id
                                /\ d.storeId = storeId
                                /\ d.isActive)
    IN  [k \in 1..Cardinality(m) |->
           ps[CHOOSE i \in m : Cardinality({j \in m : j <= i}) = k]]

\* found.find(p => p.id === productId)
FindProduct(found, productId) ==
    found[Min({i \in 1..Len(found) : found[i].id = productId})]

\* mutant: the item total is the unit price
OrderItemsUnitPrice(found, items) ==
    [i \in 1..Len(items) |->
       LET product == FindProduct(found, items[i].productId)
       IN  [productId |-> items[i].productId,
            productName |-> product.name,
            quantity |-> items[i].quantity,
            price |-> product.price,
            total |-> product.price]]

\* items.map(...): the snapshot of each cart item
OrderItems(found, items) ==
    [i \in 1..Len(items) |->
       LET product == FindProduct(found, items[i].productId)
       IN  [productId |-> items[i].productId,
            productName |-> product.name,
            quantity |-> items[i].quantity,
            price |-> product.price,
            total |-> product.price * items[i].quantity]]

calculatedTotal(orderItems) ==
    SumSeq([i \in 1..Len(orderItems) |-> orderItems[i].total])

\* `ORD-${Date.now().toString().slice(-8)}`
OrderNumberModulus == 100000000

orderNumber(t) == <<"ORD-", t % OrderNumberModulus>>

\* mutant: the document takes the status of the body when it has one
newOrderBodyStatus(n, t, storeId, body, found) ==
    LET orderItems == OrderItems(found, body.items)
    IN  [id |-> <<"order", n>>,
         orderNumber |-> orderNumber(t),
         storeId |-> storeId,
         items |-> orderItems,
         total |-> IF Truthy(body.total) THEN Value(body.total)
                   ELSE calculatedTotal(orderItems),
         status |-> IF body.status # "" THEN body.status ELSE "pending",
         customerInfo |-> IF body.customerInfo # "" THEN body.customerInfo ELSE "{}",
         paymentStatus |-> Absent,
         razorpayOrderId |-> Absent,
         razorpayPaymentId |-> Absent,
         paymentCompletedAt |-> {},
         createdAt |-> t,
         updatedAt |-> t]

\* newOrder: the document of the n-th order, made at time t
newOrder(n, t, storeId, body, found) ==
    LET orderItems == OrderItems(found, body.items)
    IN  [id |-> <<"order", n>>,
         orderNumber |-> orderNumber(t),
         storeId |-> storeId,
         items |-> orderItems,
         total |-> IF Truthy(body.total) THEN Value(body.total)
                   ELSE calculatedTotal(orderItems),
         status |-> "pending",
         customerInfo |-> IF body.customerInfo # "" THEN body.customerInfo ELSE "{}",
         paymentStatus |-> Absent,
         razorpayOrderId |-> Absent,
         razorpayPaymentId |-> Absent,
         paymentCompletedAt |-> {},
         createdAt |-> t,
         updatedAt |-> t]

\* mutant: the products that were not found are dropped from the order
CreateOrderResultPartial(storeId, body) ==
    LET found == findCartProducts(products, storeId, body.items)
        kept == SelectSeq(body.items,
                          LAMBDA it : \E k \in 1..Len(found) : found[k].id = it.productId)
    IN  IF body.items = <<>>
        THEN [code |-> 400, err |-> "Order items are required", orders |-> orders]
        ELSE IF ~validateStoreAccess(storeId)
        THEN [code |-> 404, err |-> "Store not found", orders |-> orders]
        ELSE IF found = <<>>
        THEN [code |-> 400, err |-> "One or more products not found",
              orders |-> orders]
        ELSE [code |-> 201, err |-> "",
              orders |-> Append(orders,
                          newOrder(Len(orders) + 1, now, storeId,
                                   [body EXCEPT !.items = kept], found))]

CreateOrderResult(storeId, body) ==
    LET found == findCartProducts(products, storeId, body.items)
    IN  IF body.items = <<>>
        THEN [code |-> 400, err |-> "Order items are required", orders |-> orders]
        ELSE IF ~validateStoreAccess(storeId)
        THEN [code |-> 404, err |-> "Store not found", orders |-> orders]
        ELSE IF Len(found) # Len(body.items)
        THEN [code |-> 400, err |-> "One or more products not found",
              orders |-> orders]
        ELSE [code |-> 201, err |-> "",
              orders |-> Append(orders,
                          newOrder(Len(orders) + 1, now, storeId, body, found))]

\* mutant: the inventory of the ordered products is taken down
CreateOrderTakingInventory(storeId, body) ==
    LET r == CreateOrderResult(storeId, body)
        ordered(d) == SumSeq([k \in 1..Len(body.items) |->
                               IF body.items[k].productId = d.id
                               THEN body.items[k].quantity ELSE 0])
    IN  /\ Serve("createOrder", [storeId |-> storeId, body |-> body], r)
        /\ orders' = r.orders
        /\ products' = IF r.code = 201
                       THEN [i \in 1..Len(products) |->
                               [products[i] EXCEPT !.inventory = @ - ordered(products[i])]]
                       ELSE products
        /\ UNCHANGED <<stores, productSeq, now, gateway, report, client, db, calls>>

CreateOrder(storeId, body) ==
    LET r == CreateOrderResult(storeId, body)
    IN  /\ Serve("createOrder", [storeId |-> storeId, body |-> body], r)
        /\ orders' = r.orders
        /\ UNCHANGED <<stores, products, productSeq, now, gateway, report, client, db, calls>>

(***************************************************************************)
(* POST /api/payment/create-order.  The amount of the body is a decimal    *)
(* number of currency units, counted here in thousandths of a unit; the    *)
(* gateway is sent hundredths.  The gateway accepts the order or throws.   *)
(***************************************************************************)
\* Math.round(amount * 100): halves go up
ThousandthsPerHundredth == 10

RoundToHundredths(amount) ==
    (2 * amount + ThousandthsPerHundredth) \div (2 * ThousandthsPerHundredth)

\* the argument of razorpay.orders.create
gatewayOrder(body) ==
    [amount |-> RoundToHundredths(Value(body.amount)),
     currency |-> "INR",
     receipt |-> body.receipt]

InitiatePaymentResult(body, accepted) ==
    IF ~Truthy(body.amount) \/ body.receipt = ""
    THEN [code |-> 400, err |-> "Amount and receipt are required",
          gateway |-> gateway]
    ELSE IF accepted
    THEN [code |-> 200, err |-> "", gateway |-> Append(gateway, gatewayOrder(body))]
    ELSE [code |-> 500, err |-> "gateway error",
          gateway |-> Append(gateway, gatewayOrder(body))]

\* a request that reaches the gateway is taken while the run has steps to go
InitiatePayment(body, accepted) ==
    LET r == InitiatePaymentResult(body, accepted)
    IN  /\ last = Idle
        /\ r.gateway # gateway => budget > 0
        /\ budget' = IF r.gateway # gateway THEN budget - 1 ELSE budget
        /\ last' = Response("initiatePayment", body, r.code, r.err)
        /\ gateway' = r.gateway
        /\ UNCHANGED <<stores, products, orders, productSeq, now, report, client, db, calls>>

(***************************************************************************)
(* POST /api/payment/verify                                                *)
(***************************************************************************)
\* mutant: the payment id is not stored
MarkPaidNoPaymentId(d, body) ==
    [d EXCEPT !.status = "paid",
              !.paymentStatus = "completed",
              !.razorpayOrderId = body.razorpay_order_id,
              !.paymentCompletedAt = {now},
              !.updatedAt = now]

\* the document d after the $set of a verified payment
MarkPaid(d, body) ==
    [d EXCEPT !.status = "paid",
              !.paymentStatus = "completed",
              !.razorpayOrderId = body.razorpay_order_id,
              !.razorpayPaymentId = body.razorpay_payment_id,
              !.paymentCompletedAt = {now},
              !.updatedAt = now]

\* mutant: the order is updated before the signature is compared
VerifyPaymentResultUpdateFirst(body) ==
    LET m == Matches(orders, LAMBDA d : d.id = body.orderId
                                         /\ d.storeId = body.storeId)
        updated == IF m = {} THEN orders
                   ELSE [orders EXCEPT ![Min(m)] = MarkPaid(@, body)]
    IN  IF \/ body.razorpay_order_id = ""
           \/ body.razorpay_payment_id = ""
           \/ body.razorpay_signature = <<>>
        THEN [code |-> 400, err |-> "Missing payment verification parameters",
              orders |-> orders]
        ELSE IF generatedSignature(body.razorpay_order_id, body.razorpay_payment_id)
                  # body.razorpay_signature
        THEN [code |-> 400, err |-> "Invalid payment signature", orders |-> updated]
        ELSE IF m = {}
        THEN [code |-> 404, err |-> "Order not found", orders |-> orders]
        ELSE [code |-> 200, err |-> "", orders |-> updated]

VerifyPaymentResult(body) ==
    LET m == Matches(orders, LAMBDA d : d.id = body.orderId
                                         /\ d.storeId = body.storeId)
    IN  IF \/ body.razorpay_order_id = ""
           \/ body.razorpay_payment_id = ""
           \/ body.razorpay_signature = <<>>
        THEN [code |-> 400, err |-> "Missing payment verification parameters",
              orders |-> orders]
        ELSE IF generatedSignature(body.razorpay_order_id, body.razorpay_payment_id)
                  # body.razorpay_signature
        THEN [code |-> 400, err |-> "Invalid payment signature", orders |-> orders]
        ELSE IF m = {}
        THEN [code |-> 404, err |-> "Order not found", orders |-> orders]
        ELSE [code |-> 200, err |-> "",
              orders |-> [orders EXCEPT ![Min(m)] = MarkPaid(@, body)]]

VerifyPayment(body) ==
    LET r == VerifyPaymentResult(body)
    IN  /\ Serve("verifyPayment", body, r)
        /\ orders' = r.orders
        /\ UNCHANGED <<stores, products, productSeq, now, gateway, report, client, db, calls>>

(***************************************************************************)
(* PUT /api/orders/{storeId}/order/{itemId}                                *)
(***************************************************************************)
\* mutant: the order is matched by its id alone
UpdateOrderStatusResultAnyStore(storeId, itemId, body) ==
    LET m == Matches(orders, LAMBDA d : d.id = itemId)
    IN  IF body.status = ""
        THEN [code |-> 400, err |-> "Status is required", orders |-> orders]
        ELSE IF ~validateStoreAccess(storeId)
        THEN [code |-> 404, err |-> "Store not found", orders |-> orders]
        ELSE IF m = {}
        THEN [code |-> 404, err |-> "Order not found", orders |-> orders]
        ELSE [code |-> 200, err |-> "",
              orders |-> [orders EXCEPT ![Min(m)] =
                            [@ EXCEPT !.status = body.status, !.updatedAt = now]]]

UpdateOrderStatusResult(storeId, itemId, body) ==
    LET m == Matches(orders, LAMBDA d : d.id = itemId /\ d.storeId = storeId)
    IN  IF body.status = ""
        THEN [code |-> 400, err |-> "Status is required", orders |-> orders]
        ELSE IF ~validateStoreAccess(storeId)
        THEN [code |-> 404, err |-> "Store not found", orders |-> orders]
        ELSE IF m = {}
        THEN [code |-> 404, err |-> "Order not found", orders |-> orders]
        ELSE [code |-> 200, err |-> "",
              orders |-> [orders EXCEPT ![Min(m)] =
                            [@ EXCEPT !.status = body.status, !.updatedAt = now]]]

UpdateOrderStatus(storeId, itemId, body) ==
    LET r == UpdateOrderStatusResult(storeId, itemId, body)
    IN  /\ Serve("updateOrderStatus",
                 [storeId |-> storeId, itemId |-> itemId, body |-> body], r)
        /\ orders' = r.orders
        /\ UNCHANGED <<stores, products, productSeq, now, gateway, report, client, db, calls>>

(***************************************************************************)
(* Requests served a step at a time.  A handler runs without interruption  *)
(* up to each await of the database; between two awaits of one request     *)
(* the steps of other requests take place.  calls holds, for each request  *)
(* in service, its position pc, its request and the locals it has read.    *)
(***************************************************************************)
CallIds == 1..MaxCalls

\* a request that has been answered
Answered(call, code, err) ==
    [pc |-> "answered", op |-> call.op, req |-> call.req, code |-> code, err |-> err]

CallFrame == <<budget, now, last, gateway, report, client, db>>

\* POST /api/stores: up to `await ...findOne({ slug })`
CreateStoreLookup(c) ==
    /\ calls[c].pc = "start"
    /\ calls[c].op \in {"createStore", "storesRoute.createStore"}
    /\ calls' = [calls EXCEPT ![c] =
          IF calls[c].req.name = <<>>
          THEN Answered(calls[c], 400, "Store name is required")
          ELSE [pc |-> "found", op |-> calls[c].op, req |-> calls[c].req,
                existingStore |->
                  Matches(stores, LAMBDA d : d.slug = generateSlug(calls[c].req.name))
                    # {}]]
    /\ UNCHANGED <<stores, products, orders, productSeq>>
    /\ UNCHANGED CallFrame

\* POST /api/stores: from the result of findOne to the response
CreateStoreInsert(c) ==
    /\ calls[c].pc = "found"
    /\ calls[c].op \in {"createStore", "storesRoute.createStore"}
    /\ IF calls[c].existingStore
       THEN /\ calls' = [calls EXCEPT ![c] =
                           Answered(calls[c], 400, "Store name already taken")]
            /\ stores' = stores
       ELSE /\ calls' = [calls EXCEPT ![c] = Answered(calls[c], 201, "")]
            /\ stores' = Append(stores, newStore(Len(stores) + 1, calls[c].req))
    /\ UNCHANGED <<products, orders, productSeq>>
    /\ UNCHANGED CallFrame

\* createOrder up to `await validateStoreAccess(storeId)`
CreateOrderValidate(c) ==
    /\ calls[c].pc = "start"
    /\ calls[c].op = "createOrder"
    /\ calls' = [calls EXCEPT ![c] =
                   IF @.req.body.items = <<>>
                   THEN Answered(@, 400, "Order items are required")
                   ELSE IF ~validateStoreAccess(@.req.storeId)
                   THEN Answered(@, 404, "Store not found")
                   ELSE [pc |-> "validated", op |-> @.op, req |-> @.req]]
    /\ UNCHANGED <<stores, products, orders, productSeq>>
    /\ UNCHANGED CallFrame

\* createOrder from the product lookup to the order document: what the
\* lookup found and the time of the document stay with the request
CreateOrderFind(c) ==
    /\ calls[c].pc = "validated"
    /\ LET found == findCartProducts(products, calls[c].req.storeId,
                                     calls[c].req.body.items)
       IN  calls' = [calls EXCEPT ![c] =
                       IF Len(found) # Len(@.req.body.items)
                       THEN Answered(@, 400, "One or more products not found")
                       ELSE [pc |-> "found", op |-> @.op, req |-> @.req,
                             found |-> found, t |-> now]]
    /\ UNCHANGED <<stores, products, orders, productSeq>>
    /\ UNCHANGED CallFrame

\* mutant: the products are looked up again with the insert
CreateOrderInsertRechecking(c) ==
    /\ calls[c].pc = "found"
    /\ LET again == findCartProducts(products, calls[c].req.storeId,
                                     calls[c].req.body.items)
       IN  IF again = calls[c].found
           THEN /\ orders' = Append(orders,
                                newOrder(Len(orders) + 1, calls[c].t,
                                         calls[c].req.storeId, calls[c].req.body,
                                         calls[c].found))
                /\ calls' = [calls EXCEPT ![c] = Answered(@, 201, "")]
           ELSE /\ orders' = orders
                /\ calls' = [calls EXCEPT ![c] =
                               Answered(@, 400, "One or more products not found")]
    /\ UNCHANGED <<stores, products, productSeq>>
    /\ UNCHANGED CallFrame

\* createOrder: `await insertOne(newOrder)` and the response
CreateOrderInsert(c) ==
    /\ calls[c].pc = "found"
    /\ orders' = Append(orders,
                        newOrder(Len(orders) + 1, calls[c].t, calls[c].req.storeId,
                                 calls[c].req.body, calls[c].found))
    /\ calls' = [calls EXCEPT ![c] = Answered(@, 201, "")]
    /\ UNCHANGED <<stores, products, productSeq>>
    /\ UNCHANGED CallFrame

\* a request in service has looked up the product and has not yet inserted
InOrderWindow(itemId) ==
    \E c \in DOMAIN calls :
       /\ calls[c].pc = "found"
       /\ \E k \in 1..Len(calls[c].found) : calls[c].found[k].id = itemId

\* connectToDatabase: up to `await client.connect()`, or to the return when
\* there is a client
ConnectToDatabaseEnter(c) ==
    /\ calls[c].pc = "start"
    /\ calls[c].op = "connectToDatabase"
    /\ IF client = "null"
       THEN /\ client' = "MongoClient"
            /\ calls' = [calls EXCEPT ![c] = [pc |-> "connecting", op |-> @.op]]
       ELSE /\ client' = client
            /\ calls' = [calls EXCEPT ![c] =
                           [pc |-> "returned", op |-> @.op, value |-> db]]
    /\ UNCHANGED <<stores, products, orders, productSeq, budget, now, last,
                   gateway, report, db>>

\* connectToDatabase: client.connect() resolves; db is set and returned
ConnectResolves(c) ==
    /\ calls[c].pc = "connecting"
    /\ db' = "Db"
    /\ calls' = [calls EXCEPT ![c] = [pc |-> "returned", op |-> @.op, value |-> "Db"]]
    /\ UNCHANGED <<stores, products, orders, productSeq, budget, now, last,
                   gateway, report, client>>

\* connectToDatabase: client.connect() rejects; the call throws
ConnectRejects(c) ==
    /\ calls[c].pc = "connecting"
    /\ calls' = [calls EXCEPT ![c] = [pc |-> "thrown", op |-> @.op]]
    /\ UNCHANGED <<stores, products, orders, productSeq, budget, now, last,
                   gateway, report, client, db>>

\* the next request calls connectToDatabase
ConnectAgain(c) ==
    /\ calls[c].pc \in {"returned", "thrown"}
    /\ budget > 0
    /\ budget' = budget - 1
    /\ calls' = [calls EXCEPT ![c] = [pc |-> "start", op |-> @.op]]
    /\ UNCHANGED <<stores, products, orders, productSeq, now, last, gateway,
                   report, client, db>>

(***************************************************************************)
(* Exceptions of the persistence layer.  A call of the driver that throws  *)
(* has no effect on the database.  POST and PUT connect to the database    *)
(* inside their outer try; the payment verification connects again and     *)
(* updates the order inside a try of its own.                              *)
(***************************************************************************)
\* the outer catch of POST, PUT and DELETE
CaughtOutside(op, req) ==
    /\ last = Idle
    /\ last' = Response(op, req, 500, "Internal server error")
    /\ UNCHANGED <<stores, products, orders, productSeq, budget, now, gateway,
                   report, client, db, calls>>

\* connectToDatabase, validateStoreAccess, find or insertOne throws
CreateOrderThrows(storeId, body, error) ==
    CaughtOutside("createOrder", [storeId |-> storeId, body |-> body])

\* connectToDatabase, validateStoreAccess or updateOne throws
UpdateOrderStatusThrows(storeId, itemId, body, error) ==
    CaughtOutside("updateOrderStatus",
                  [storeId |-> storeId, itemId |-> itemId, body |-> body])

\* the first connectToDatabase throws, or, for a body that has passed the
\* signature check, the second one or updateOne throws
VerifyPaymentThrows(body, error, inside) ==
    IF inside
    THEN /\ VerifyPaymentResult(body).code \in {200, 404}
         /\ last = Idle
         /\ last' = Response("verifyPayment", body, 500, error)
         /\ UNCHANGED <<stores, products, orders, productSeq, budget, now,
                        gateway, report, client, db, calls>>
    ELSE CaughtOutside("verifyPayment", body)

(***************************************************************************)
(* GET /api/analytics/{storeId}?period=...  A day is TicksPerDay ticks of  *)
(* the clock.  The period is the number the query string holds, {} when    *)
(* it holds none.  $sort leaves the order of equal keys open, so a sorted  *)
(* result is any of the sequences that respect the sort.                   *)
(***************************************************************************)
TicksPerDay == 2

\* searchParams.get('period') || '30'
DefaultPeriod == 30

daysAgo(period) == IF period = {} THEN DefaultPeriod ELSE Value(period)

\* mutant: the window is always the default one
startDateDefault(period) == now - DefaultPeriod * TicksPerDay

\* startDate.setDate(startDate.getDate() - daysAgo)
startDate(period) == now - daysAgo(period) * TicksPerDay

\* the calendar day of a time
DayOf(t) == t \div TicksPerDay

\* {storeId, createdAt: {$gte: startDate}}
InWindow(d, storeId, period) ==
    d.storeId = storeId /\ d.createdAt >= startDate(period)

\* mutant: pending orders count as completed
IsCompletedInWindowOrPending(d, storeId, period) ==
    InWindow(d, storeId, period) /\ d.status \in {"paid", "completed", "pending"}

\* {storeId, status: {$in: ['paid', 'completed']}, createdAt: {$gte: startDate}}
IsCompletedInWindow(d, storeId, period) ==
    InWindow(d, storeId, period) /\ d.status \in {"paid", "completed"}

RECURSIVE SortedSeqs(_, _)
\* {$sort: {key: 1}}: the sequences that list the elements of S once each,
\* by ascending key[x]
SortedSeqs(S, key) ==
    IF S = {} THEN {<<>>}
    ELSE UNION {{<<m>> \o rest : rest \in SortedSeqs(S \ {m}, key)} :
                  m \in {x \in S : \A y \in S : key[x] <= key[y]}}

\* .limit(n), .slice(0, n)
Limit(s, n) == IF Len(s) <= n THEN s ELSE SubSeq(s, 1, n)

RECURSIVE Unwind(_)
\* {$unwind: '$items'}: the items of the documents, in order
Unwind(docs) ==
    IF docs = <<>> THEN <<>> ELSE Head(docs).items \o Unwind(Tail(docs))

\* mutant: the digits after the first are cut off
ToFixed1Truncated(num, den) ==
    [type |-> "string", tenths |-> (1000 * num) \div den]

\* (x).toFixed(1) of x = 100 * num / den: the decimal string with one digit
\* after the point, here the number of tenths it denotes; halves go up
ToFixed1(num, den) ==
    [type |-> "string", tenths |-> (2000 * num + den) \div (2 * den)]

\* the number 0
NumberZero == [type |-> "number", tenths |-> 0]

conversionRate(completedOrders, totalOrders) ==
    IF totalOrders > 0 THEN ToFixed1(completedOrders, totalOrders) ELSE NumberZero

ItemsOfProduct(items, productId) ==
    SelectSeq(items, LAMBDA it : it.productId = productId)

\* the $group of topProducts: one document for each product id of the items
TopProductGroups(items) ==
    {[productId |-> pid,
      name |-> ItemsOfProduct(items, pid)[1].productName,
      totalQuantity |->
          SumSeq([k \in 1..Len(ItemsOfProduct(items, pid)) |->
                    ItemsOfProduct(items, pid)[k].quantity]),
      totalRevenue |->
          SumSeq([k \in 1..Len(ItemsOfProduct(items, pid)) |->
                    ItemsOfProduct(items, pid)[k].quantity
                      * ItemsOfProduct(items, pid)[k].price])] :
       pid \in {items[k].productId : k \in 1..Len(items)}}

OrdersOfDay(docs, day) ==
    SelectSeq(docs, LAMBDA d : DayOf(d.createdAt) = day)

\* the $group of dailySales mapped to chartData: one entry for each day
ChartEntries(docs) ==
    {[date |-> day,
      sales |-> SumSeq([k \in 1..Len(OrdersOfDay(docs, day)) |->
                         OrdersOfDay(docs, day)[k].total]),
      orders |-> Len(OrdersOfDay(docs, day))] :
       day \in {DayOf(docs[k].createdAt) : k \in 1..Len(docs)}}

\* the summary of the report
analyticsSummary(storeId, period) ==
    LET completed == SelectSeq(orders, LAMBDA d : IsCompletedInWindow(d, storeId, period))
        totalOrders == Len(SelectSeq(orders, LAMBDA d : InWindow(d, storeId, period)))
    IN  [totalOrders |-> totalOrders,
         totalRevenue |-> SumSeq([k \in 1..Len(completed) |-> completed[k].total]),
         completedOrders |-> Len(completed),
         pendingOrders |->
             Len(SelectSeq(orders, LAMBDA d : InWindow(d, storeId, period)
                                               /\ d.status = "pending")),
         totalProducts |->
             Len(SelectSeq(products, LAMBDA d : d.storeId = storeId /\ d.isActive)),
         conversionRate |-> conversionRate(Len(completed), totalOrders)]

\* the reports the handler can return
analytics(storeId, period) ==
    LET completed == SelectSeq(orders, LAMBDA d : IsCompletedInWindow(d, storeId, period))
        ofStore == {d.id : d \in {e \in Range(orders) : e.storeId = storeId}}
        createdAt(id) == (CHOOSE d \in Range(orders) : d.id = id).createdAt
        groups == TopProductGroups(Unwind(completed))
        entries == ChartEntries(completed)
    IN  {[summary |-> analyticsSummary(storeId, period),
          topProducts |-> Limit(top, 5),
          recentOrders |-> Limit(Limit(recent, 10), 5),
          chartData |-> chart] :
           top \in SortedSeqs(groups, [g \in groups |-> 0 - g.totalQuantity]),
           recent \in SortedSeqs(ofStore, [id \in ofStore |-> 0 - createdAt(id)]),
           chart \in SortedSeqs(entries, [e \in entries |-> e.date])}

\* a read: it takes no step of the run
GetAnalytics(storeId, period) ==
    /\ last = Idle
    /\ IF ~validateStoreAccess(storeId)
       THEN /\ last' = Response("computeAnalytics",
                                [storeId |-> storeId, period |-> period],
                                404, "Store not found")
            /\ report' = NoReport
       ELSE /\ last' = Response("computeAnalytics",
                                [storeId |-> storeId, period |-> period], 200, "")
            /\ report' \in analytics(storeId, period)
    /\ UNCHANGED <<stores, products, orders, productSeq, budget, now, gateway, client, db, calls>>

\* the sub-queries of Promise.all, by the names their results are bound to
SubQueries == {"totalOrders", "totalRevenue", "completedOrders", "pendingOrders",
               "totalProducts", "topProducts", "recentOrders", "dailySales"}

\* what a sub-query can return when the server runs it now
SubQueryResults(q, storeId, period) ==
    {CASE q = "topProducts" -> r.topProducts
       [] q = "recentOrders" -> r.recentOrders
       [] q = "dailySales" -> r.chartData
       [] OTHER -> r.summary[q] : r \in analytics(storeId, period)}

\* the report made of the results of the sub-queries
analyticsOf(results) ==
    [summary |-> [totalOrders |-> results["totalOrders"],
                  totalRevenue |-> results["totalRevenue"],
                  completedOrders |-> results["completedOrders"],
                  pendingOrders |-> results["pendingOrders"],
                  totalProducts |-> results["totalProducts"],
                  conversionRate |-> conversionRate(results["completedOrders"],
                                                    results["totalOrders"])],
     topProducts |-> results["topProducts"],
     recentOrders |-> results["recentOrders"],
     chartData |-> results["dailySales"]]

\* analytics up to Promise.all: the store is checked and the sub-queries are
\* issued
AnalyticsIssue(c) ==
    /\ calls[c].pc = "start"
    /\ calls[c].op = "computeAnalytics"
    /\ calls' = [calls EXCEPT ![c] =
                   IF ~validateStoreAccess(@.req.storeId)
                   THEN Answered(@, 404, "Store not found")
                   ELSE [pc |-> "querying", op |-> @.op, req |-> @.req,
                         results |-> [q \in {} |-> 0]]]
    /\ UNCHANGED <<stores, products, orders, productSeq>>
    /\ UNCHANGED CallFrame

\* the server runs one of the sub-queries that are outstanding
AnalyticsSubQuery(c, q) ==
    /\ calls[c].pc = "querying"
    /\ q \notin DOMAIN calls[c].results
    /\ \E v \in SubQueryResults(q, calls[c].req.storeId, calls[c].req.period) :
          calls' = [calls EXCEPT ![c].results =
                      [x \in DOMAIN @ \cup {q} |-> IF x = q THEN v ELSE @[x]]]
    /\ UNCHANGED <<stores, products, orders, productSeq>>
    /\ UNCHANGED CallFrame

\* Promise.all resolves: the report is made and returned
AnalyticsReturn(c) ==
    /\ calls[c].pc = "querying"
    /\ DOMAIN calls[c].results = SubQueries
    /\ calls' = [calls EXCEPT ![c] =
                   [pc |-> "answered", op |-> @.op, req |-> @.req, code |-> 200,
                    err |-> "", report |-> analyticsOf(@.results)]]
    /\ UNCHANGED <<stores, products, orders, productSeq>>
    /\ UNCHANGED CallFrame

(***************************************************************************)
(* Specifications.  The store scenario starts from the empty database.     *)
(* The other two start from a database that earlier requests have left:    *)
(* the catalogue-and-cart scenario from two stores (SeedStores, a state    *)
(* of the store scenario) and their three products (SeedProducts, what     *)
(* three product creations make of it), the payment scenario from these    *)
(* with one pending order (SeedOrders, a state of the catalogue-and-cart   *)
(* scenario).                                                              *)
(***************************************************************************)
SeedStores ==
    <<newStore(1, [name |-> <<"A", "c">>]), newStore(2, [name |-> <<"b">>])>>

SeedProducts ==
    <<newProduct(1, <<"store", 1>>,
                 [name |-> <<"W">>, price |-> {2}, inventory |-> {5}]),
      newProduct(2, <<"store", 1>>,
                 [name |-> <<"x">>, price |-> {5}, inventory |-> {}]),
      newProduct(3, <<"store", 2>>,
                 [name |-> <<"W">>, price |-> {2}, inventory |-> {5}])>>

SeedOrders ==
    LET body == [items |-> <<[productId |-> <<"product", 1>>, quantity |-> 1]>>,
                 customerInfo |-> "alice", total |-> {}, status |-> ""]
    IN  <<newOrder(1, 0, <<"store", 1>>, body,
                   findCartProducts(SeedProducts, <<"store", 1>>, body.items))>>

\* the payment scenario: every handler, plain products and one-item orders
Init == InitWith(SeedStores, SeedProducts, SeedOrders, MaxSteps)

Next ==
    \/ Tick
    \/ Respond
    \/ \E body \in PlainStoreBodies : CreateStore(body)
    \/ \E body \in PlainStoreBodies : StoresRouteCreateStore(body)
    \/ \E storeId \in StoreIds, body \in PlainProductBodies :
          CreateProduct(storeId, body)
    \/ \E storeId \in StoreIds, itemId \in PlainProductIds, body \in PlainProductUpdates :
          UpdateProduct(storeId, itemId, body)
    \/ \E storeId \in StoreIds, itemId \in PlainProductIds :
          DeleteProduct(storeId, itemId)
    \/ \E storeId \in StoreIds, body \in PlainOrderBodies : CreateOrder(storeId, body)
    \/ \E body \in VerifyBodies : VerifyPayment(body)
    \/ \E storeId \in StoreIds, itemId \in OrderIds, body \in StatusBodies :
          UpdateOrderStatus(storeId, itemId, body)

Spec == Init /\ [][Next]_vars

\* the catalogue-and-cart scenario
InitCart == InitWith(SeedStores, SeedProducts, <<>>, MaxCartSteps)

NextCart ==
    \/ Tick
    \/ Respond
    \/ \E body \in PlainStoreBodies : CreateStore(body)
    \/ \E storeId \in StoreIds, body \in ProductBodies : CreateProduct(storeId, body)
    \/ \E storeId \in StoreIds, itemId \in ProductIds, body \in ProductUpdates :
          UpdateProduct(storeId, itemId, body)
    \/ \E storeId \in StoreIds, itemId \in ProductIds : DeleteProduct(storeId, itemId)
    \/ \E storeId \in StoreIds, body \in OrderBodies : CreateOrder(storeId, body)

SpecCart == InitCart /\ [][NextCart]_vars

\* the store scenario
InitStores == InitWith(<<>>, <<>>, <<>>, MaxStoreSteps)

NextStores ==
    \/ Tick
    \/ Respond
    \/ \E body \in StoreBodies : CreateStore(body)
    \/ \E body \in StoreBodies : StoresRouteCreateStore(body)

SpecStores == InitStores /\ [][NextStores]_vars

\* the checkout scenario: the requests of the storefront's checkout page
InitCheckout == InitWith(SeedStores, SeedProducts, SeedOrders, MaxCheckoutSteps)

NextCheckout ==
    \/ Tick
    \/ Respond
    \/ \E storeId \in StoreIds, body \in PlainOrderBodies : CreateOrder(storeId, body)
    \/ \E body \in PaymentBodies, accepted \in BOOLEAN : InitiatePayment(body, accepted)
    \/ \E body \in VerifyBodies : VerifyPayment(body)

SpecCheckout == InitCheckout /\ [][NextCheckout]_vars

\* the analytics scenario: on day 40 of a history of six orders, made on day
\* 0, in the last tick before and the first of the 30-day window, and
\* inside it; their statuses are those status updates have left
SeedOrder(n, t, storeId, item, status) ==
    LET body == [items |-> <<item>>, customerInfo |-> "alice", total |-> {},
                 status |-> ""]
    IN  [newOrder(n, t, storeId, body,
                  findCartProducts(SeedProducts, storeId, body.items))
           EXCEPT !.status = status,
                  !.updatedAt = IF status = "pending" THEN t ELSE t + 1]

SeedHistory ==
    LET one(p) == [productId |-> <<"product", p>>, quantity |-> 1]
        two(p) == [productId |-> <<"product", p>>, quantity |-> 2]
        day == TicksPerDay
    IN  <<SeedOrder(1, 0, <<"store", 1>>, one(1), "paid"),
          SeedOrder(2, 10 * day - 1, <<"store", 1>>, one(1), "pending"),
          SeedOrder(3, 10 * day, <<"store", 1>>, two(2), "completed"),
          SeedOrder(4, 20 * day, <<"store", 2>>, one(3), "paid"),
          SeedOrder(5, 30 * day, <<"store", 1>>, one(1), "paid"),
          SeedOrder(6, 35 * day, <<"store", 1>>, two(2), "pending")>>

InitAnalytics ==
    /\ stores = SeedStores
    /\ products = SeedProducts
    /\ orders = SeedHistory
    /\ productSeq = Len(SeedProducts)
    /\ budget = MaxAnalyticsSteps
    /\ now = 40 * TicksPerDay
    /\ last = Idle
    /\ gateway = <<>>
    /\ report = NoReport
    /\ client = "MongoClient"
    /\ db = "Db"
    /\ calls = <<>>

NextAnalytics ==
    \/ Tick
    \/ Respond
    \/ \E storeId \in StoreIds, body \in PlainOrderBodies : CreateOrder(storeId, body)
    \/ \E storeId \in StoreIds, itemId \in AnalyticsOrderIds,
          body \in AnalyticsStatusBodies :
          UpdateOrderStatus(storeId, itemId, body)
    \/ \E storeId \in StoreIds, period \in Periods : GetAnalytics(storeId, period)

SpecAnalytics == InitAnalytics /\ [][NextAnalytics]_vars

\* the fault scenario: requests on orders, served or failing in the driver
InitFaults == InitWith(SeedStores, SeedProducts, SeedOrders, MaxFaultSteps)

NextFaults ==
    \/ Tick
    \/ Respond
    \/ \E storeId \in StoreIds, body \in PlainOrderBodies : CreateOrder(storeId, body)
    \/ \E body \in VerifyBodies : VerifyPayment(body)
    \/ \E storeId \in StoreIds, itemId \in OrderIds, body \in StatusBodies :
          UpdateOrderStatus(storeId, itemId, body)
    \/ \E storeId \in StoreIds, body \in PlainOrderBodies, error \in DriverErrors :
          CreateOrderThrows(storeId, body, error)
    \/ \E storeId \in StoreIds, itemId \in OrderIds, body \in StatusBodies,
          error \in DriverErrors :
          UpdateOrderStatusThrows(storeId, itemId, body, error)
    \/ \E body \in VerifyBodies, error \in DriverErrors, inside \in BOOLEAN :
          VerifyPaymentThrows(body, error, inside)

SpecFaults == InitFaults /\ [][NextFaults]_vars

\* the order race: order creations in service, and the product writes that
\* fall between the lookup and the insert of one of them
Deactivation == [NoUpdate EXCEPT !.isActive = {FALSE}]

InitOrderRace ==
    /\ stores = SeedStores
    /\ products = SeedProducts
    /\ orders = <<>>
    /\ productSeq = Len(SeedProducts)
    /\ budget = MaxRaceSteps
    /\ now = 0
    /\ last = Idle
    /\ gateway = <<>>
    /\ report = NoReport
    /\ client = "MongoClient"
    /\ db = "Db"
    /\ calls \in [CallIds -> [pc : {"start"}, op : {"createOrder"},
                              req : [storeId : StoreIds, body : PlainOrderBodies]]]

NextOrderRace ==
    \/ Respond
    \/ \E c \in CallIds : CreateOrderValidate(c)
    \/ \E c \in CallIds : CreateOrderFind(c)
    \/ \E c \in CallIds : CreateOrderInsert(c)
    \/ \E storeId \in StoreIds, itemId \in ProductIds :
          InOrderWindow(itemId) /\ UpdateProduct(storeId, itemId, Deactivation)
    \/ \E storeId \in StoreIds, itemId \in ProductIds :
          InOrderWindow(itemId) /\ DeleteProduct(storeId, itemId)

SpecOrderRace == InitOrderRace /\ [][NextOrderRace]_vars

\* the report race: one report in service, and writes to the orders of the
\* seeded history; the clock stands still
ReportRequests == [storeId : {<<"store", 1>>, <<"store", 3>>}, period : {{}, {7}}]

InitReportRace ==
    /\ stores = SeedStores
    /\ products = SeedProducts
    /\ orders = SeedHistory
    /\ productSeq = Len(SeedProducts)
    /\ budget = MaxReportSteps
    /\ now = 40 * TicksPerDay
    /\ last = Idle
    /\ gateway = <<>>
    /\ report = NoReport
    /\ client = "MongoClient"
    /\ db = "Db"
    /\ calls \in [{1} -> [pc : {"start"}, op : {"computeAnalytics"},
                          req : ReportRequests]]

NextReportRace ==
    \/ Respond
    \/ \E c \in DOMAIN calls : AnalyticsIssue(c)
    \/ \E c \in DOMAIN calls, q \in SubQueries : AnalyticsSubQuery(c, q)
    \/ \E c \in DOMAIN calls : AnalyticsReturn(c)
    \/ \E body \in PlainOrderBodies : CreateOrder(<<"store", 1>>, body)
    \/ \E itemId \in AnalyticsOrderIds, body \in AnalyticsStatusBodies :
          UpdateOrderStatus(<<"store", 1>>, itemId, body)

SpecReportRace == InitReportRace /\ [][NextReportRace]_vars

\* the connection scenario: the first requests of a process
InitConnect ==
    /\ stores = <<>>
    /\ products = <<>>
    /\ orders = <<>>
    /\ productSeq = 0
    /\ budget = MaxConnectSteps
    /\ now = 0
    /\ last = Idle
    /\ gateway = <<>>
    /\ report = NoReport
    /\ client = "null"
    /\ db = "null"
    /\ calls = [c \in CallIds |-> [pc |-> "start", op |-> "connectToDatabase"]]

NextConnect ==
    \/ \E c \in CallIds : ConnectToDatabaseEnter(c)
    \/ \E c \in CallIds : ConnectResolves(c)
    \/ \E c \in CallIds : ConnectRejects(c)
    \/ \E c \in CallIds : ConnectAgain(c)

SpecConnect == InitConnect /\ [][NextConnect]_vars

\* the store race: store creations in service at the same time on an empty
\* database
InitStoreRace ==
    /\ stores = <<>>
    /\ products = <<>>
    /\ orders = <<>>
    /\ productSeq = 0
    /\ budget = 0
    /\ now = 0
    /\ last = Idle
    /\ gateway = <<>>
    /\ report = NoReport
    /\ client = "MongoClient"
    /\ db = "Db"
    /\ calls \in [CallIds -> [pc : {"start"},
                              op : {"createStore", "storesRoute.createStore"},
                              req : StoreBodies]]

NextStoreRace ==
    \/ \E c \in CallIds : CreateStoreLookup(c)
    \/ \E c \in CallIds : CreateStoreInsert(c)

SpecStoreRace == InitStoreRace /\ [][NextStoreRace]_vars

(***************************************************************************)
(* Properties.  A step that serves a request records it in last', so a     *)
(* property of a handler is a property of the steps whose last'.op names   *)
(* it: last'.req is the request, last'.code and last'.err the response,    *)
(* the unprimed collections the database the request found.                *)
(***************************************************************************)
StoreIsActive(storeId) ==
    \E i \in 1..Len(stores) : stores[i].id = storeId /\ stores[i].isActive

\* the active product of the store with this id, as the request found it
Resolves(storeId, productId) ==
    \E i \in 1..Len(products) :
        /\ products[i].id = productId
        /\ products[i].storeId = storeId
        /\ products[i].isActive

PriceOf(productId) ==
    (CHOOSE d \in Range(products) : d.id = productId).price

CallbackIncomplete(b) ==
    \/ b.razorpay_order_id = ""
    \/ b.razorpay_payment_id = ""
    \/ b.razorpay_signature = <<>>

CallbackSigned(b) ==
    b.razorpay_signature = GatewaySignature(b.razorpay_order_id, b.razorpay_payment_id)

\* the positions of the orders with this id in this store
OrdersOf(storeId, orderId) ==
    {i \in 1..Len(orders) : orders[i].id = orderId /\ orders[i].storeId = storeId}

\* C1: an order created without a supplied total snapshots, for each cart
\* item, the quantity asked and the product's current price, prices the item
\* at quantity times price, and has the sum of these as its total.
C1_OrderTotalIsSumOfItems ==
    [][(last'.op = "createOrder" /\ last'.code = 201 /\ last'.req.body.total = {}) =>
         LET items == last'.req.body.items
             o == orders'[Len(orders')]
         IN  /\ Len(orders') = Len(orders) + 1
             /\ Len(o.items) = Len(items)
             /\ \A i \in 1..Len(items) :
                   /\ o.items[i].productId = items[i].productId
                   /\ o.items[i].quantity = items[i].quantity
                   /\ o.items[i].price = PriceOf(items[i].productId)
                   /\ o.items[i].total = items[i].quantity * PriceOf(items[i].productId)
             /\ o.total = SumSeq([i \in 1..Len(items) |->
                                    items[i].quantity * PriceOf(items[i].productId)])]_vars

\* C1 witness: a two-item order, 1 x 2 + 2 x 5, was created without a total
C1_Witness ==
    /\ last.op = "createOrder"
    /\ last.code = 201
    /\ last.req.body.total = {}
    /\ Len(last.req.body.items) = 2
    /\ orders # <<>>
    /\ Last(orders).total = 12

\* C2 (as stated): a cart with a product id that does not resolve to an active
\* product of the target store is answered 400 and creates no order.
C2_UnresolvedCartIs400 ==
    [][(/\ last'.op = "createOrder"
        /\ \E i \in 1..Len(last'.req.body.items) :
              ~Resolves(last'.req.storeId, last'.req.body.items[i].productId)) =>
         (last'.code = 400 /\ orders' = orders)]_vars

\* C2 (amended): such a cart creates no order; the answer is 400 when the
\* target store is active and 404 when it is not.
C2_UnresolvedCartCreatesNoOrder ==
    [][(/\ last'.op = "createOrder"
        /\ \E i \in 1..Len(last'.req.body.items) :
              ~Resolves(last'.req.storeId, last'.req.body.items[i].productId)) =>
         /\ orders' = orders
         /\ IF StoreIsActive(last'.req.storeId)
            THEN last'.code = 400 /\ last'.err = "One or more products not found"
            ELSE last'.code = 404 /\ last'.err = "Store not found"]_vars

\* C2 witness: a cart of one product that resolves and one that does not was
\* refused
C2_Witness ==
    /\ last.op = "createOrder"
    /\ last.code = 400
    /\ last.err = "One or more products not found"
    /\ \E i \in 1..Len(last.req.body.items) :
          Resolves(last.req.storeId, last.req.body.items[i].productId)
    /\ \E i \in 1..Len(last.req.body.items) :
          ~Resolves(last.req.storeId, last.req.body.items[i].productId)

\* C3: a payment callback with a missing gateway value, or with a signature
\* that is not the HMAC of "order id|payment id" under the key secret, is
\* answered 400 and changes no order.
C3_RejectedCallbackWritesNothing ==
    [][last'.op = "verifyPayment" =>
         /\ CallbackIncomplete(last'.req) =>
               /\ last'.code = 400
               /\ last'.err = "Missing payment verification parameters"
               /\ orders' = orders
         /\ (~CallbackIncomplete(last'.req) /\ ~CallbackSigned(last'.req)) =>
               /\ last'.code = 400
               /\ last'.err = "Invalid payment signature"
               /\ orders' = orders]_vars

\* C3 witness: a callback with a wrong signature named an existing pending
\* order and was refused
C3_Witness ==
    /\ last.op = "verifyPayment"
    /\ last.err = "Invalid payment signature"
    /\ \E i \in OrdersOf(last.req.storeId, last.req.orderId) :
          orders[i].status = "pending"

\* C4: a callback with a valid signature sets, on the order matched by id and
\* store, status paid, payment status completed, the two gateway ids and the
\* completion time, and nothing else; with no matching order it is answered
\* 404 and changes no order.
C4_ValidCallbackMarksPaid ==
    [][(/\ last'.op = "verifyPayment"
        /\ ~CallbackIncomplete(last'.req)
        /\ CallbackSigned(last'.req)) =>
         LET b == last'.req
             m == OrdersOf(b.storeId, b.orderId)
         IN  IF m = {}
             THEN last'.code = 404 /\ last'.err = "Order not found" /\ orders' = orders
             ELSE /\ last'.code = 200
                  /\ Len(orders') = Len(orders)
                  /\ \A i \in 1..Len(orders) :
                        orders'[i] =
                          IF i \in m
                          THEN [orders[i] EXCEPT
                                  !.status = "paid",
                                  !.paymentStatus = "completed",
                                  !.razorpayOrderId = b.razorpay_order_id,
                                  !.razorpayPaymentId = b.razorpay_payment_id,
                                  !.paymentCompletedAt = {now},
                                  !.updatedAt = now]
                          ELSE orders[i]]_vars

\* C4 witness: a verified callback marked an order paid after its creation
C4_Witness ==
    /\ last.op = "verifyPayment"
    /\ last.code = 200
    /\ \E i \in OrdersOf(last.req.storeId, last.req.orderId) :
          /\ orders[i].status = "paid"
          /\ orders[i].razorpayPaymentId = "pay_1"
          /\ orders[i].paymentCompletedAt = {now}
          /\ orders[i].createdAt < now

\* an order, new or old, whose status is paid after the step and was not before
BecomesPaid(i) ==
    /\ orders'[i].status = "paid"
    /\ i <= Len(orders) => orders[i].status # "paid"

\* C5 (as stated): an order becomes paid only by a callback with a valid
\* signature.
C5_OnlyVerifyPaymentPays ==
    [][\A i \in 1..Len(orders') :
         BecomesPaid(i) =>
           /\ last'.op = "verifyPayment"
           /\ last'.code = 200
           /\ CallbackSigned(last'.req)]_vars

\* C5 (amended): an order becomes paid only by a callback with a valid
\* signature that names it, or by a merchant status update to paid that
\* names it.
C5_OnlyVerifyPaymentOrMerchantPays ==
    [][\A i \in 1..Len(orders') :
         BecomesPaid(i) =>
           /\ i <= Len(orders)
           /\ \/ /\ last'.op = "verifyPayment"
                 /\ last'.code = 200
                 /\ CallbackSigned(last'.req)
                 /\ i \in OrdersOf(last'.req.storeId, last'.req.orderId)
              \/ /\ last'.op = "updateOrderStatus"
                 /\ last'.code = 200
                 /\ last'.req.body.status = "paid"
                 /\ i \in OrdersOf(last'.req.storeId, last'.req.itemId)]_vars

\* C5 witness: the first request served was a verified callback and its order
\* is paid
C5_Witness ==
    /\ last.op = "verifyPayment"
    /\ last.code = 200
    /\ CallbackSigned(last.req)
    /\ budget = MaxSteps - 1
    /\ \E i \in OrdersOf(last.req.storeId, last.req.orderId) :
          orders[i].status = "paid" /\ orders[i].paymentStatus = "completed"

\* C6: a callback that repeats the gateway ids already stored on an order by
\* an earlier verified callback leaves the status of that order as it is.
C6_VerifiedPaymentAppliesOnce ==
    [][last'.op = "verifyPayment" =>
         \A i \in OrdersOf(last'.req.storeId, last'.req.orderId) :
            (/\ orders[i].paymentStatus = "completed"
             /\ orders[i].razorpayOrderId = last'.req.razorpay_order_id
             /\ orders[i].razorpayPaymentId = last'.req.razorpay_payment_id) =>
               orders'[i].status = orders[i].status]_vars

\* C7: every order is inserted by createOrder, one at a time, with status
\* pending and without payment status, gateway ids or completion time.
C7_NewOrderIsPending ==
    [][Len(orders') > Len(orders) =>
         /\ last'.op = "createOrder"
         /\ Len(orders') = Len(orders) + 1
         /\ LET o == orders'[Len(orders')]
            IN  /\ o.status = "pending"
                /\ o.paymentStatus = Absent
                /\ o.razorpayOrderId = Absent
                /\ o.razorpayPaymentId = Absent
                /\ o.paymentCompletedAt = {}]_vars

\* C7 witness: an order was created from a body that asked for status paid
C7_Witness ==
    /\ last.op = "createOrder"
    /\ last.code = 201
    /\ last.req.body.status = "paid"
    /\ orders # <<>>
    /\ Last(orders).status = "pending"

\* C8: creating, updating or deleting a product leaves the items and the
\* total of every order as they are.
C8_ProductWritesKeepOrderItems ==
    [][last'.op \in {"createProduct", "updateProduct", "deleteProduct"} =>
         /\ Len(orders') = Len(orders)
         /\ \A i \in 1..Len(orders) :
               /\ orders'[i].items = orders[i].items
               /\ orders'[i].total = orders[i].total]_vars

\* C8 witness: a product was repriced and an order still holds an item of it
\* at the earlier price
C8_Witness ==
    /\ last.op = "updateProduct"
    /\ last.code = 200
    /\ last.req.body.price # {}
    /\ \E i \in 1..Len(orders) : \E k \in 1..Len(orders[i].items) :
          /\ orders[i].items[k].productId = last.req.itemId
          /\ orders[i].items[k].price # Value(last.req.body.price)
          /\ orders[i].items[k].price # PriceOf(last.req.itemId)

\* C9: creating a store under a name whose slug an existing store has is
\* answered 400 'Store name already taken' and inserts nothing; under a name
\* whose slug is free it inserts one store with that slug.
C9_SecondStoreOfSlugIsRefused ==
    [][(/\ last'.op \in {"createStore", "storesRoute.createStore"}
        /\ last'.req.name # <<>>) =>
         IF \E i \in 1..Len(stores) : stores[i].slug = generateSlug(last'.req.name)
         THEN /\ last'.code = 400
              /\ last'.err = "Store name already taken"
              /\ stores' = stores
         ELSE /\ last'.code = 201
              /\ Len(stores') = Len(stores) + 1
              /\ SubSeq(stores', 1, Len(stores)) = stores
              /\ stores'[Len(stores')].slug = generateSlug(last'.req.name)]_vars

\* C9 witness: a store was refused under a name that no store has, its slug
\* being taken
C9_Witness ==
    /\ last.op \in {"createStore", "storesRoute.createStore"}
    /\ last.err = "Store name already taken"
    /\ \A i \in 1..Len(stores) : stores[i].name # last.req.name
    /\ \E i \in 1..Len(stores) : stores[i].slug = generateSlug(last.req.name)

\* C10: a status update with a status sets that status and the update time
\* on the order matched by id and store, whatever its current status, when
\* the store is active; otherwise it is answered 404 and changes no order.
C10_StatusUpdateIsUnconstrained ==
    [][(last'.op = "updateOrderStatus" /\ last'.req.body.status # "") =>
         LET r == last'.req
             m == OrdersOf(r.storeId, r.itemId)
         IN  IF StoreIsActive(r.storeId) /\ m # {}
             THEN /\ last'.code = 200
                  /\ Len(orders') = Len(orders)
                  /\ \A i \in 1..Len(orders) :
                        orders'[i] =
                          IF i \in m
                          THEN [orders[i] EXCEPT !.status = r.body.status,
                                                 !.updatedAt = now]
                          ELSE orders[i]
             ELSE last'.code = 404 /\ orders' = orders]_vars

\* C10 witness: a paid order was set to a status outside the documented
\* values
C10_Witness ==
    /\ last.op = "updateOrderStatus"
    /\ last.code = 200
    /\ last.req.body.status = "refunded"
    /\ \E i \in OrdersOf(last.req.storeId, last.req.itemId) :
          /\ orders[i].status = "refunded"
          /\ orders[i].paymentStatus = "completed"

\* C11: a payment creation reaches the gateway only with an amount above
\* zero and a receipt; with any other input it is answered 400 and the
\* gateway receives nothing.
C11_GatewayNeedsPositiveAmount ==
    [][last'.op = "initiatePayment" =>
         LET b == last'.req
             valid == b.amount # {} /\ Value(b.amount) > 0 /\ b.receipt # ""
         IN  ~valid => (last'.code = 400 /\ gateway' = gateway)]_vars

\* the days of the period a report was asked for
PeriodDays == IF last.req.period = {} THEN 30 ELSE Value(last.req.period)

\* the positions of the orders of the store a report was asked for that
\* were created no earlier than PeriodDays days ago
WindowOrders ==
    {i \in 1..Len(orders) :
        /\ orders[i].storeId = last.req.storeId
        /\ now - orders[i].createdAt <= PeriodDays * TicksPerDay}

PaidWindowOrders ==
    {i \in WindowOrders : orders[i].status \in {"paid", "completed"}}

RECURSIVE SumOver(_, _)
\* the sum of f[x] over the x in S
SumOver(S, f) ==
    IF S = {} THEN 0
    ELSE LET x == CHOOSE y \in S : TRUE IN f[x] + SumOver(S \ {x}, f)

\* a report has been computed and is being returned
Reported == last.op = "computeAnalytics" /\ last.code = 200

\* C12: the conversion rate of a report is the number 0 when the report
\* counts no order, and otherwise the tenth nearest to
\* completedOrders / totalOrders x 100.
C12_ConversionRate ==
    Reported =>
      LET t == report.summary.totalOrders
          c == report.summary.completedOrders
          r == report.summary.conversionRate
      IN  IF t = 0 THEN r = NumberZero
          ELSE /\ 2 * (r.tenths * t - 1000 * c) <= t
               /\ 2 * (1000 * c - r.tenths * t) <= t

\* C12 witness: two of three orders are completed and the rate is 66.7
C12_Witness ==
    /\ Reported
    /\ report.summary.totalOrders = 3
    /\ report.summary.completedOrders = 2
    /\ report.summary.conversionRate.tenths = 667

\* C13: the window-scoped metrics of a report count exactly the orders of
\* the store created no earlier than the period ago: the order counts, the
\* revenue, the quantities of the top products and the days and counts of
\* the chart are those of WindowOrders.
C13_WindowScopedMetrics ==
    Reported =>
      LET items == {<<i, k>> \in PaidWindowOrders \X (1..MaxItems) :
                       k <= Len(orders[i].items)}
          ofProduct(pid) == {x \in items : orders[x[1]].items[x[2]].productId = pid}
          days == {DayOf(orders[i].createdAt) : i \in PaidWindowOrders}
      IN  /\ report.summary.totalOrders = Cardinality(WindowOrders)
          /\ report.summary.completedOrders = Cardinality(PaidWindowOrders)
          /\ report.summary.pendingOrders =
               Cardinality({i \in WindowOrders : orders[i].status = "pending"})
          /\ report.summary.totalRevenue =
               SumOver(PaidWindowOrders, [i \in PaidWindowOrders |-> orders[i].total])
          /\ {g.productId : g \in Range(report.topProducts)} =
               {orders[x[1]].items[x[2]].productId : x \in items}
          /\ \A g \in Range(report.topProducts) :
                g.totalQuantity =
                  SumOver(ofProduct(g.productId),
                          [x \in ofProduct(g.productId) |->
                             orders[x[1]].items[x[2]].quantity])
          /\ {e.date : e \in Range(report.chartData)} = days
          /\ \A e \in Range(report.chartData) :
                e.orders = Cardinality({i \in PaidWindowOrders :
                                          DayOf(orders[i].createdAt) = e.date})

\* C13 witness: a 90-day report counts an order made 40 days ago, which is
\* outside the 30-day window
C13_Witness ==
    /\ Reported
    /\ last.req.period = {90}
    /\ \E i \in PaidWindowOrders :
          /\ now - orders[i].createdAt >= 40 * TicksPerDay
          /\ \E e \in Range(report.chartData) : e.date = DayOf(orders[i].createdAt)
    /\ report.summary.totalOrders = 5

\* C14: the revenue of a report is the sum of the totals of the orders of
\* the store in the window whose status is paid or completed, 0 when there
\* is none.
C14_RevenueOfPaidOrders ==
    Reported =>
      /\ report.summary.totalRevenue =
           SumOver(PaidWindowOrders, [i \in PaidWindowOrders |-> orders[i].total])
      /\ PaidWindowOrders = {} => report.summary.totalRevenue = 0

\* C14 witness: a report with revenue from a completed order while the
\* window holds a pending and a cancelled order
C14_Witness ==
    /\ Reported
    /\ report.summary.totalRevenue = 10
    /\ \E i \in WindowOrders : orders[i].status = "pending" /\ orders[i].total > 0
    /\ \E i \in WindowOrders : orders[i].status = "cancelled" /\ orders[i].total > 0

\* C15: no two products of one store have the same slug.
C15_ProductSlugsUniqueInStore ==
    \A i, j \in 1..Len(products) :
        (i # j /\ products[i].storeId = products[j].storeId) =>
          products[i].slug # products[j].slug

\* C16: no step changes the store id of a product that exists before and
\* after it.
C16_ProductStoreIdIsFixed ==
    [][\A i \in 1..Len(products), j \in 1..Len(products') :
         products'[j].id = products[i].id =>
           products'[j].storeId = products[i].storeId]_vars

\* C16 witness: a product was updated with a body naming another store and
\* is still in the store of the request path
C16_Witness ==
    /\ last.op = "updateProduct"
    /\ last.code = 200
    /\ last.req.body.storeId # {}
    /\ \E i \in 1..Len(products) :
          /\ products[i].id = last.req.itemId
          /\ products[i].storeId = last.req.storeId
          /\ products[i].storeId # Value(last.req.body.storeId)

\* C17: an order creation leaves stores, products and the gateway as they
\* are; answered 201 it appends one order to the orders, answered otherwise
\* it leaves the orders as they are.
C17_CreateOrderOnlyInserts ==
    [][last'.op = "createOrder" =>
         /\ stores' = stores
         /\ products' = products
         /\ gateway' = gateway
         /\ IF last'.code = 201
            THEN /\ Len(orders') = Len(orders) + 1
                 /\ SubSeq(orders', 1, Len(orders)) = orders
            ELSE orders' = orders]_vars

\* C17 witness: two of a product were ordered and its inventory is as it
\* was created
C17_Witness ==
    /\ last.op = "createOrder"
    /\ last.code = 201
    /\ \E k \in 1..Len(last.req.body.items) : \E i \in 1..Len(products) :
          /\ last.req.body.items[k].quantity = 2
          /\ products[i].id = last.req.body.items[k].productId
          /\ products[i] = SeedProducts[i]

\* C18: the total of a created order is the total of the body when the body
\* has one, 0 included, and the sum of the item totals when it has none.
C18_SuppliedTotalIsKept ==
    [][(last'.op = "createOrder" /\ last'.code = 201) =>
         LET o == orders'[Len(orders')]
             supplied == last'.req.body.total
         IN  o.total = IF supplied # {} THEN Value(supplied)
                       ELSE SumSeq([k \in 1..Len(o.items) |-> o.items[k].total])]_vars

\* the statuses the order state machine names
StatusValues ==
    {"pending", "paid", "processing", "shipped", "delivered", "completed",
     "cancelled"}

\* C19: the status of every order is one of the enumerated values.
C19_StatusIsEnumerated ==
    \A i \in 1..Len(orders) : orders[i].status \in StatusValues

\* C20: every item of every order has a quantity of at least 1, and no item
\* total and no order total is negative.
C20_QuantityIsPositive ==
    \A i \in 1..Len(orders) :
        /\ orders[i].total >= 0
        /\ \A k \in 1..Len(orders[i].items) :
              /\ orders[i].items[k].quantity >= 1
              /\ orders[i].items[k].total >= 0

\* C21: a request on the orders that fails in the persistence layer is
\* answered 500 with the fixed message, never with the message of the
\* exception.
C21_ExceptionsAreGeneric ==
    [][(/\ last'.op \in {"createOrder", "updateOrderStatus", "verifyPayment"}
        /\ last'.code = 500) =>
         (last'.err = "Internal server error" /\ last'.err \notin DriverErrors)]_vars

\* C22: an order creation for an active store with a cart that is not
\* empty is refused with 'One or more products not found' exactly when the
\* active products of the store among the requested ones are fewer than
\* the distinct requested ids; a cart that lists a valid product twice is
\* accepted.
C22_DistinctIdsAreCounted ==
    [][(/\ last'.op = "createOrder"
        /\ last'.req.body.items # <<>>
        /\ StoreIsActive(last'.req.storeId)) =>
         LET items == last'.req.body.items
             requested == {items[k].productId : k \in 1..Len(items)}
             resolved == {pid \in requested : Resolves(last'.req.storeId, pid)}
         IN  IF Cardinality(resolved) # Cardinality(requested)
             THEN last'.code = 400 /\ last'.err = "One or more products not found"
             ELSE last'.code = 201]_vars

\* C23: no two stores have the same slug, whatever the interleaving of the
\* store creations in service.
C23_StoreSlugsUnique ==
    \A i, j \in 1..Len(stores) : i # j => stores[i].slug # stores[j].slug

\* C24: the client is constructed at most once, and every call of
\* connectToDatabase that returns, returns the database handle.
C24_ConnectReturnsHandle ==
    /\ \A c \in DOMAIN calls :
          (calls[c].op = "connectToDatabase" /\ calls[c].pc = "returned") =>
            calls[c].value = "Db"
    /\ Cardinality({c \in DOMAIN calls : calls[c].pc = "connecting"}) <= 1

\* an item of the order is of a product that is not an active product of
\* the order's store
HasInactiveItem(o) ==
    \E k \in 1..Len(o.items) :
       Matches(products, LAMBDA d : /\ d.id = o.items[k].productId
                                    /\ d.storeId = o.storeId
                                    /\ d.isActive) = {}

\* C25: the insert of createOrder does not look at the products again: a
\* request that has found its products inserts the order made of them and is
\* answered 201, whatever was written to the products since the lookup.
C25_InsertFollowsLookup ==
    [][\A c \in DOMAIN calls :
         (calls[c].op = "createOrder" /\ calls[c].pc = "found"
            /\ calls'[c].pc # "found") =>
           /\ calls'[c].code = 201
           /\ orders' = Append(orders, Last(orders'))
           /\ Last(orders').storeId = calls[c].req.storeId
           /\ Last(orders').items = OrderItems(calls[c].found, calls[c].req.body.items)]_vars

\* the one order of the database was inserted after the product of its item
\* had been deactivated or deleted (product writes of the race fall between
\* a lookup and its insert, and every request has been answered)
C25_Witness ==
    /\ \A c \in DOMAIN calls : calls[c].op = "createOrder" /\ calls[c].pc = "answered"
    /\ Len(orders) = 1
    /\ HasInactiveItem(orders[1])

\* C26: in every report that is returned, completedOrders + pendingOrders
\* is at most totalOrders and conversionRate is at most 100.
C26_ReportIsOneSnapshot ==
    \A c \in DOMAIN calls :
       (calls[c].op = "computeAnalytics" /\ calls[c].pc = "answered"
          /\ calls[c].code = 200) =>
         /\ calls[c].report.summary.completedOrders
              + calls[c].report.summary.pendingOrders
              <= calls[c].report.summary.totalOrders
         /\ calls[c].report.summary.conversionRate.tenths <= 1000

\* the document of this id in the collection belongs to another store
OwnedByOther(coll, id, storeId) ==
    \E d \in Range(coll) : d.id = id /\ d.storeId # storeId

\* the request being answered names a store and a document of another store
CrossTenant(r) ==
    \/ /\ r.op = "updateOrderStatus"
       /\ OwnedByOther(orders, r.req.itemId, r.req.storeId)
    \/ /\ r.op = "verifyPayment"
       /\ OwnedByOther(orders, r.req.orderId, r.req.storeId)
    \/ /\ r.op \in {"updateProduct", "deleteProduct"}
       /\ OwnedByOther(products, r.req.itemId, r.req.storeId)

\* the cart of the request being answered has a product of another store
CrossTenantCart(r) ==
    /\ r.op = "createOrder"
    /\ \E k \in 1..Len(r.req.body.items) :
          OwnedByOther(products, r.req.body.items[k].productId, r.req.storeId)

\* the handler answers 400 before it looks for the document
RefusedUnread(r) ==
    \/ r.op = "updateOrderStatus" /\ r.req.body.status = ""
    \/ /\ r.op = "verifyPayment"
       /\ \/ CallbackIncomplete(r.req)
          \/ ~CallbackSigned(r.req)

\* C27 (as stated): a request with the store id of one store and the id of
\* an order or product of another is answered 404 and writes nothing, and a
\* cart with a product of another store is rejected.
C27_CrossTenantIsNotFound ==
    [][(last = Idle /\ last' # Idle) =>
         /\ CrossTenant(last') =>
              (last'.code = 404 /\ orders' = orders /\ products' = products)
         /\ CrossTenantCart(last') =>
              (last'.code \in {400, 404} /\ orders' = orders)]_vars

\* C27 (amended): such a request writes nothing and is answered 404, or 400
\* where the handler refuses the body before it looks for the document (a
\* missing status; a callback that is incomplete or wrongly signed); a cart
\* with a product of another store is rejected.
C27_TenantIsolation ==
    [][(last = Idle /\ last' # Idle) =>
         /\ CrossTenant(last') =>
              /\ orders' = orders /\ products' = products
              /\ last'.code = IF RefusedUnread(last') THEN 400 ELSE 404
         /\ CrossTenantCart(last') =>
              (last'.code \in {400, 404} /\ orders' = orders)]_vars

\* a correctly signed callback that names an order and another store than
\* the order's has been answered 404
C27_Witness ==
    /\ last.op = "verifyPayment"
    /\ CallbackSigned(last.req)
    /\ OwnedByOther(orders, last.req.orderId, last.req.storeId)
    /\ last.code = 404

\* C28: a signed gateway order id marks the order it was created for and no
\* other: no two orders are marked paid with the same gateway order id.
C28_SignedIdPaysOneOrder ==
    \A i, j \in 1..Len(orders) :
       (i # j /\ orders[i].paymentStatus = "completed") =>
         orders[i].razorpayOrderId # orders[j].razorpayOrderId

\* the fields of an order that no operation writes after its creation
SameIdentity(o, n) ==
    /\ n.id = o.id
    /\ n.orderNumber = o.orderNumber
    /\ n.storeId = o.storeId
    /\ n.items = o.items
    /\ n.total = o.total
    /\ n.customerInfo = o.customerInfo
    /\ n.createdAt = o.createdAt

\* the fields of an order that verifyPayment writes and updateOrderStatus
\* does not
SamePayment(o, n) ==
    /\ n.paymentStatus = o.paymentStatus
    /\ n.razorpayOrderId = o.razorpayOrderId
    /\ n.razorpayPaymentId = o.razorpayPaymentId
    /\ n.paymentCompletedAt = o.paymentCompletedAt

\* C29: no step removes an order; every order keeps its place, its id,
\* orderNumber, storeId, items, total, customerInfo and createdAt; a step of
\* updateOrderStatus changes at most status and updatedAt, a step of
\* verifyPayment at most status, updatedAt and the four payment fields, and
\* a step of any other operation changes no order.
C29_OrdersAppendOnly ==
    [][/\ Len(orders') >= Len(orders)
       /\ \A i \in 1..Len(orders) :
             /\ SameIdentity(orders[i], orders'[i])
             /\ last'.op = "updateOrderStatus" => SamePayment(orders[i], orders'[i])
             /\ last'.op \notin {"updateOrderStatus", "verifyPayment"} =>
                   orders'[i] = orders[i]]_vars

\* an order has been marked paid by verifyPayment and then given another
\* status by updateOrderStatus
C29_Witness ==
    /\ last.op = "updateOrderStatus"
    /\ last.code = 200
    /\ \E i \in 1..Len(orders) :
          /\ orders[i].id = last.req.itemId
          /\ orders[i].paymentStatus = "completed"
          /\ orders[i].status = "shipped"

\* C30: distinct orders have distinct orderNumbers.
C30_OrderNumbersDistinct ==
    \A i, j \in 1..Len(orders) :
       i # j => orders[i].orderNumber # orders[j].orderNumber

=============================================================================
